---- MODULE Spec2Model ----
(***************************************************************************)
(* Model of dashboard_panel.py: the private credit portfolio dashboard.    *)
(*                                                                         *)
(* The dashboard is a reactive graph (pn.bind): the filter widgets feed    *)
(* filter_data, its result feeds the company selector's options and        *)
(* get_company_data, and the selected record feeds the details, scenario   *)
(* and trends components.  A widget event re-evaluates everything bound    *)
(* downstream of it, so every action below recomputes the bound values.    *)
(*                                                                         *)
(* Numbers of the program are floats; they are modelled as exact           *)
(* rationals [n, d] in lowest terms (d > 0), with float('inf') as 1/0.     *)
(***************************************************************************)
EXTENDS Integers, Sequences, FiniteSets, TLC

VARIABLES
    df,                       \* the position store (line 15), a sequence of rows
    category_filter,          \* value of the category Select widget
    sector_filter,            \* value of the sector MultiChoice widget
    company_selector,         \* value of the company Select widget
    metrics_selector,         \* value of the metrics MultiChoice widget
    filtered_df_panel,        \* pn.bind(filter_data, ...)
    company_data,             \* pn.bind(get_company_data, ...)
    company_details_pane,     \* pn.bind(create_company_details, company_data)
    scenario_analysis_pane,   \* pn.bind(create_scenario_analysis, company_data)
    performance_trends_pane,  \* pn.bind(create_performance_trends, company_data)
    metric_visualization_pane \* pn.bind(create_metric_visualization, ...)

vars == <<df, category_filter, sector_filter, company_selector, metrics_selector,
          filtered_df_panel, company_data, company_details_pane,
          scenario_analysis_pane, performance_trends_pane,
          metric_visualization_pane>>

---------------------------------------------------------------------------
(* Bounds of the model.                                                    *)

\* Longest position store handed to filter_data on its own.
MaxPositions == 3

\* Longest position store the dashboard is started on.
MaxDashboard == 2

\* Ratio inputs are drawn on a grid of step 1/GridDen.
GridDen == 2

\* Largest EBITDA Margin, Interest Coverage and Leverage Ratio drawn for the
\* risk scorer (each beyond the point where its factor saturates).
MaxMargin == 2
MaxCoverage == 11
MaxLeverage == 9

\* Longest active subset handed to the metric normalizer.
MaxRows == 3

\* Scenario records carry amounts of up to MaxAmount hundreds, either sign.
MaxAmount == 5

---------------------------------------------------------------------------
(* Float arithmetic, as exact rationals.                                   *)

Abs(i) == IF i < 0 THEN -i ELSE i

RECURSIVE GCD(_, _)
GCD(a, b) == IF b = 0 THEN a ELSE GCD(b, a % b)

\* The rational n/d (d # 0) in lowest terms with a positive denominator.
Q(n, d) ==
    LET g == GCD(Abs(n), Abs(d))
        s == IF d < 0 THEN -1 ELSE 1
    IN  [n |-> s * (n \div g), d |-> s * (d \div g)]

I(i) == [n |-> i, d |-> 1]

\* float('inf')
Inf == [n |-> 1, d |-> 0]

\* The outcome of a division by zero: ZeroDivisionError for Python numbers,
\* inf/nan with a RuntimeWarning for numpy scalars.  Either way not a number.
ZeroDivision == [n |-> 0, d |-> 0]

QAdd(x, y) == Q(x.n * y.d + y.n * x.d, x.d * y.d)
QSub(x, y) == Q(x.n * y.d - y.n * x.d, x.d * y.d)
QMul(x, y) == Q(x.n * y.n, x.d * y.d)
QDiv(x, y) == IF y.n = 0 THEN ZeroDivision ELSE Q(x.n * y.d, x.d * y.n)
QLt(x, y)  == x.n * y.d < y.n * x.d
QLe(x, y)  == x.n * y.d <= y.n * x.d
QGt(x, y)  == QLt(y, x)
QGe(x, y)  == QLe(y, x)

\* Python's builtin min(x, y) and max(x, y): the first argument unless the
\* second is strictly smaller (larger).
QMin(x, y) == IF QLt(y, x) THEN y ELSE x
QMax(x, y) == IF QGt(y, x) THEN y ELSE x

---------------------------------------------------------------------------
(* Reference data.                                                         *)

None == "<None>"

\* The traffic-light table; its keys are the categories.
colors ==
    [c \in {"Green", "Yellow", "Amber", "Red"} |->
        CASE c = "Green"  -> "#00FF00"
          [] c = "Yellow" -> "#FFFF00"
          [] c = "Amber"  -> "#FFA500"
          [] c = "Red"    -> "#FF0000"]

Categories == DOMAIN colors

\* The Company -> Sector lookup that adds the Sector column.
sector_map ==
    [c \in {"TWLO", "PD", "BOX", "TDOC", "AMWL", "HIMS", "MAN", "RHI", "ASGN"} |->
        CASE c \in {"TWLO", "PD", "BOX"}    -> "Technology"
          [] c \in {"TDOC", "AMWL", "HIMS"} -> "Healthcare"
          [] c \in {"MAN", "RHI", "ASGN"}   -> "Services"]

Sectors == {sector_map[c] : c \in DOMAIN sector_map}

\* dict.get / Series.get with a default.
Get(series, key, default) ==
    IF key \in DOMAIN series THEN series[key] ELSE default

\* pd.Series(): the empty record.
EmptySeries == [f \in {} |-> 0]

\* len(series)
SeriesLen(series) == Cardinality(DOMAIN series)

\* One row of df: the CSV's columns plus the mapped Sector column.
Row(company, category, revenue, ebitda, total_debt, interest_expense, leverage_ratio, interest_coverage, ebitda_margin) ==
    ("Company" :> company) @@ ("Category" :> category) @@
    ("Sector" :> sector_map[company]) @@
    ("Revenue" :> revenue) @@ ("EBITDA" :> ebitda) @@
    ("Total Debt" :> total_debt) @@ ("Interest Expense" :> interest_expense) @@
    ("Leverage Ratio" :> leverage_ratio) @@
    ("Interest Coverage" :> interest_coverage) @@
    ("EBITDA Margin" :> ebitda_margin)

\* The derived ratios as the data source precomputes them; a zero divisor
\* leaves inf in the column.
Ratio(x, y) == IF y.n = 0 THEN Inf ELSE QDiv(x, y)

\* A row whose ratio columns are derived from its financials.
AnalyzedRow(company, category, revenue, ebitda, total_debt, interest_expense) ==
    Row(company, category, revenue, ebitda, total_debt, interest_expense,
        Ratio(total_debt, ebitda), Ratio(ebitda, interest_expense),
        Ratio(ebitda, revenue))

---------------------------------------------------------------------------
(* Selection filter.                                                       *)

FilterByCategory(rows, category) ==
    IF category = "All"
    THEN rows
    ELSE SelectSeq(rows, LAMBDA r : r["Category"] = category)

\* A plausible slip: the truthiness test on the criteria list is dropped, so
\* an empty list restricts to no sector at all.
filter_data_no_empty_check(rows, category, sectors) ==
    LET filtered == FilterByCategory(rows, category)
    IN  IF "All" \notin sectors
        THEN SelectSeq(filtered, LAMBDA r : r["Sector"] \in sectors)
        ELSE filtered

\* filter_data(category, sectors), with the global df it reads made explicit.
filter_data(rows, category, sectors) ==
    LET filtered == FilterByCategory(rows, category)
    IN  IF "All" \notin sectors /\ sectors # {}
        THEN SelectSeq(filtered, LAMBDA r : r["Sector"] \in sectors)
        ELSE filtered

get_company_options(filtered_df) ==
    IF filtered_df = <<>>
    THEN <<>>
    ELSE [i \in 1..Len(filtered_df) |-> filtered_df[i]["Company"]]

\* A plausible slip: the record is looked up in the whole store instead of
\* the filtered subset.
get_company_data_unfiltered(filtered_df, company) ==
    LET rows == SelectSeq(df, LAMBDA r : r["Company"] = company)
    IN  IF company = None \/ rows = <<>> THEN EmptySeries ELSE rows[1]

get_company_data(filtered_df, company) ==
    IF filtered_df = <<>> \/ company = None
    THEN EmptySeries
    ELSE LET rows == SelectSeq(filtered_df, LAMBDA r : r["Company"] = company)
         IN  IF rows = <<>> THEN EmptySeries ELSE rows[1]

---------------------------------------------------------------------------
(* Performance trends: the risk score.                                     *)

\* A bound value that has not been evaluated in the specification at hand.
Unbound == [kind |-> "unbound"]

Markdown(text) == [kind |-> "markdown", text |-> text]

\* A plausible slip: the upper cap of the margin component is left out.
ebitda_factor_uncapped(series) ==
    LET ebitda        == Get(series, "EBITDA", I(0))
        ebitda_margin == Get(series, "EBITDA Margin", I(0))
    IN  IF QLe(ebitda, I(0))
        THEN I(20)
        ELSE QMax(I(0), QMul(I(20), QSub(I(1), ebitda_margin)))

\* A plausible slip: zero EBITDA falls through to the margin formula.
ebitda_factor_strict(series) ==
    LET ebitda        == Get(series, "EBITDA", I(0))
        ebitda_margin == Get(series, "EBITDA Margin", I(0))
    IN  IF QLt(ebitda, I(0))
        THEN I(20)
        ELSE QMax(I(0), QMin(I(20), QMul(I(20), QSub(I(1), ebitda_margin))))

ebitda_factor(series) ==
    LET ebitda        == Get(series, "EBITDA", I(0))
        ebitda_margin == Get(series, "EBITDA Margin", I(0))
    IN  IF QLe(ebitda, I(0))
        THEN I(20)
        ELSE QMax(I(0), QMin(I(20), QMul(I(20), QSub(I(1), ebitda_margin))))

coverage_factor(series) ==
    LET interest_coverage == Get(series, "Interest Coverage", I(0))
    IN  IF QLe(interest_coverage, I(0))
        THEN I(40)
        ELSE LET coverage == QMin(interest_coverage, I(10))
             IN  QMax(I(0), QMin(I(40),
                     QMul(I(40), QSub(I(1), QDiv(coverage, I(10))))))

\* A plausible slip: a negative leverage is scored as maximum risk, like a
\* non-positive coverage.
leverage_factor_negative_max(series) ==
    LET leverage_ratio == Get(series, "Leverage Ratio", I(0))
    IN  IF QLt(leverage_ratio, I(0))
        THEN I(40)
        ELSE LET leverage == QMin(leverage_ratio, I(8))
             IN  QMax(I(0), QMin(I(40), QMul(I(5), leverage)))

leverage_factor(series) ==
    LET leverage_ratio == Get(series, "Leverage Ratio", I(0))
    IN  IF QLt(leverage_ratio, I(0))
        THEN I(20)
        ELSE LET leverage == QMin(leverage_ratio, I(8))
             IN  QMax(I(0), QMin(I(40), QMul(I(5), leverage)))

risk_score(series) ==
    LET total == QAdd(QAdd(ebitda_factor(series), coverage_factor(series)),
                      leverage_factor(series))
    IN  QMax(I(0), QMin(I(100), total))

\* create_performance_trends(company_data).  The two trend charts (seeded
\* random series around Revenue and EBITDA) carry no state the score reads
\* and are left out of the pane; the pane keeps the score and its factors.
create_performance_trends(series) ==
    IF SeriesLen(series) = 0
    THEN Markdown("Select a company to view performance trends.")
    ELSE [kind            |-> "column",
          Company         |-> Get(series, "Company", ""),
          ebitda_factor   |-> ebitda_factor(series),
          coverage_factor |-> coverage_factor(series),
          leverage_factor |-> leverage_factor(series),
          risk_score      |-> risk_score(series)]

\* Values k/GridDen from lo to hi.
Grid(lo, hi) == {Q(k, GridDen) : k \in (lo * GridDen)..(hi * GridDen)}

\* The records handed to the risk scorer: EBITDA, EBITDA Margin, Interest
\* Coverage and Leverage Ratio vary independently, the other columns are fixed.
RiskInputs ==
    {Row("TWLO", "Green", I(1000), e, I(600), I(50), l, c, m) :
        e \in {I(-1000000), I(0), I(1000000)},
        m \in Grid(-MaxMargin, MaxMargin),
        c \in Grid(-1, MaxCoverage),
        l \in Grid(-1, MaxLeverage)} \cup {EmptySeries}

InitRisk ==
    /\ df = <<>>
    /\ category_filter = "All"
    /\ sector_filter = {"All"}
    /\ company_selector = None
    /\ metrics_selector = <<>>
    /\ filtered_df_panel = <<>>
    /\ company_data \in RiskInputs
    /\ company_details_pane = Unbound
    /\ scenario_analysis_pane = Unbound
    /\ performance_trends_pane = Unbound
    /\ metric_visualization_pane = Unbound

\* The trends component is evaluated on the record.
RenderTrends ==
    /\ performance_trends_pane' = create_performance_trends(company_data)
    /\ UNCHANGED <<df, category_filter, sector_filter, company_selector,
                   metrics_selector, filtered_df_panel, company_data,
                   company_details_pane, scenario_analysis_pane,
                   metric_visualization_pane>>

NextRisk == RenderTrends

SpecRisk == InitRisk /\ [][NextRisk]_vars

\* The trends pane shows a score (the record was not empty).
Scored == performance_trends_pane.kind = "column"

InRange(x, lo, hi) == QLe(I(lo), x) /\ QLe(x, I(hi))

\* C1: whatever the signs and sizes of EBITDA, EBITDA Margin, Interest
\* Coverage and Leverage Ratio, the EBITDA factor lies in [0,20], the coverage
\* factor in [0,40], the leverage factor in [0,40] and the score in [0,100].
C1_ScoreAndFactorsInRange ==
    Scored =>
        /\ InRange(performance_trends_pane.ebitda_factor, 0, 20)
        /\ InRange(performance_trends_pane.coverage_factor, 0, 40)
        /\ InRange(performance_trends_pane.leverage_factor, 0, 40)
        /\ InRange(performance_trends_pane.risk_score, 0, 100)

\* A scored record with positive EBITDA and a negative margin, where only the
\* cap keeps the EBITDA factor at 20, a coverage inside (0,10) and a leverage
\* inside (0,8).
C1_Witness ==
    /\ Scored
    /\ QGt(company_data["EBITDA"], I(0))
    /\ QLt(company_data["EBITDA Margin"], I(0))
    /\ performance_trends_pane.ebitda_factor = I(20)
    /\ QGt(performance_trends_pane.coverage_factor, I(0))
    /\ QLt(performance_trends_pane.coverage_factor, I(40))
    /\ QGt(performance_trends_pane.leverage_factor, I(0))
    /\ QLt(performance_trends_pane.leverage_factor, I(40))

\* C7: EBITDA <= 0 gives EBITDA factor 20 whatever the margin; Interest
\* Coverage >= 10 gives coverage factor 0 and <= 0 gives 40; Leverage Ratio
\* >= 8 gives leverage factor 40 and < 0 gives 20.
C7_Saturation ==
    Scored =>
        /\ QLe(company_data["EBITDA"], I(0))
              => performance_trends_pane.ebitda_factor = I(20)
        /\ QGe(company_data["Interest Coverage"], I(10))
              => performance_trends_pane.coverage_factor = I(0)
        /\ QLe(company_data["Interest Coverage"], I(0))
              => performance_trends_pane.coverage_factor = I(40)
        /\ QGe(company_data["Leverage Ratio"], I(8))
              => performance_trends_pane.leverage_factor = I(40)
        /\ QLt(company_data["Leverage Ratio"], I(0))
              => performance_trends_pane.leverage_factor = I(20)

\* The spec's saturation scenarios at once: EBITDA = -1,000,000 with margin
\* -1/2, coverage above 10 and leverage above 8, scored.
C7_Witness ==
    /\ Scored
    /\ company_data["EBITDA"] = I(-1000000)
    /\ company_data["EBITDA Margin"] = Q(-1, 2)
    /\ QGt(company_data["Interest Coverage"], I(10))
    /\ QGt(company_data["Leverage Ratio"], I(8))
    /\ performance_trends_pane.ebitda_factor = I(20)
    /\ performance_trends_pane.coverage_factor = I(0)
    /\ performance_trends_pane.leverage_factor = I(40)

\* The record has negative EBITDA, Interest Coverage and Leverage Ratio: the
\* signs of a negative-earnings position with positive debt and interest.
AllNegative ==
    /\ QLt(company_data["EBITDA"], I(0))
    /\ QLt(company_data["Interest Coverage"], I(0))
    /\ QLt(company_data["Leverage Ratio"], I(0))

\* C11: a position with EBITDA < 0, Interest Coverage < 0 and Leverage Ratio
\* < 0 scores exactly 80 (20 + 40 + 20), whatever the magnitudes of the four
\* inputs, and so never the maximum of 100.
C11_AllNegativeScores80 ==
    (Scored /\ AllNegative) =>
        /\ performance_trends_pane.ebitda_factor = I(20)
        /\ performance_trends_pane.coverage_factor = I(40)
        /\ performance_trends_pane.leverage_factor = I(20)
        /\ performance_trends_pane.risk_score = I(80)
        /\ performance_trends_pane.risk_score # I(100)

\* A scored all-negative record away from the grid's edge values: coverage
\* and leverage -1/GridDen rather than -1, and a margin below -1, which the
\* margin formula alone would push past its cap.
C11_Witness ==
    /\ Scored
    /\ AllNegative
    /\ company_data["Interest Coverage"] = Q(-1, GridDen)
    /\ company_data["Leverage Ratio"] = Q(-1, GridDen)
    /\ QLt(company_data["EBITDA Margin"], I(-1))
    /\ performance_trends_pane.risk_score = I(80)

---------------------------------------------------------------------------
(* Scenario analysis.                                                      *)

\* A plausible slip: a zero new interest expense is let through to the
\* division.
new_coverage_nonneg_guard(series, interest_rate_change) ==
    LET interest_expense     == Get(series, "Interest Expense", I(0))
        ebitda               == Get(series, "EBITDA", I(0))
        new_interest_expense ==
            QMul(interest_expense,
                 QAdd(I(1), QDiv(interest_rate_change, I(100))))
    IN  IF QGe(new_interest_expense, I(0))
        THEN QDiv(ebitda, new_interest_expense)
        ELSE Inf

\* new_coverage of update_scenario.
new_coverage(series, interest_rate_change) ==
    LET interest_expense     == Get(series, "Interest Expense", I(0))
        ebitda               == Get(series, "EBITDA", I(0))
        new_interest_expense ==
            QMul(interest_expense,
                 QAdd(I(1), QDiv(interest_rate_change, I(100))))
    IN  IF QGt(new_interest_expense, I(0))
        THEN QDiv(ebitda, new_interest_expense)
        ELSE Inf

\* new_leverage of update_scenario.
new_leverage(series, revenue_decline) ==
    LET ebitda     == Get(series, "EBITDA", I(0))
        total_debt == Get(series, "Total Debt", I(0))
        new_ebitda ==
            QMul(ebitda, QSub(I(1), QDiv(revenue_decline, I(100))))
    IN  IF new_ebitda # I(0)
        THEN QDiv(total_debt, new_ebitda)
        ELSE Inf

\* update_scenario(interest_rate_change, revenue_decline) on the record its
\* closure captured.  It returns a column of two text panes, one per value
\* (each printed to two decimals); the column is kept as the two values.
update_scenario(series, interest_rate_change, revenue_decline) ==
    [kind         |-> "column",
     new_coverage |-> new_coverage(series, interest_rate_change),
     new_leverage |-> new_leverage(series, revenue_decline)]

\* create_scenario_analysis(company_data): two fresh sliders at 0 and the
\* results bound to them.
create_scenario_analysis(series) ==
    IF SeriesLen(series) = 0
    THEN Markdown("Select a company to perform scenario analysis.")
    ELSE [kind                   |-> "column",
          Company                |-> Get(series, "Company", ""),
          interest_rate_slider   |-> I(0),
          revenue_decline_slider |-> I(0),
          scenario_results       |-> update_scenario(series, I(0), I(0))]

\* Positions of the interest rate slider (start -5.0, end 5.0, step 0.01)
\* that are explored: both ends, the smallest moves, a middle value.
interest_rate_values == {Q(k, 100) : k \in {-500, -250, -1, 0, 1, 250, 500}}

\* Positions of the revenue decline slider (start 0.0, end 50.0, step 1.0)
\* that are explored.
revenue_decline_values == {I(k) : k \in {0, 1, 25, 49, 50}}

\* The records handed to the scenario component: Interest Expense and EBITDA
\* of either sign or zero, Total Debt from zero up, the ratio columns derived.
ScenarioInputs ==
    {AnalyzedRow("PD", "Red", I(1000), I(100 * e), I(100 * t), I(100 * x)) :
        e \in -MaxAmount..MaxAmount,
        t \in 0..MaxAmount,
        x \in -MaxAmount..MaxAmount} \cup {EmptySeries}

InitScenario ==
    /\ df = <<>>
    /\ category_filter = "All"
    /\ sector_filter = {"All"}
    /\ company_selector = None
    /\ metrics_selector = <<>>
    /\ filtered_df_panel = <<>>
    /\ company_data \in ScenarioInputs
    /\ company_details_pane = Unbound
    /\ scenario_analysis_pane = create_scenario_analysis(company_data)
    /\ performance_trends_pane = Unbound
    /\ metric_visualization_pane = Unbound

\* The interest rate slider is moved: the bound results are recomputed.
SetInterestRate(rate) ==
    /\ scenario_analysis_pane.kind = "column"
    /\ scenario_analysis_pane' =
          [scenario_analysis_pane EXCEPT
              !.interest_rate_slider = rate,
              !.scenario_results =
                  update_scenario(company_data, rate,
                                  scenario_analysis_pane.revenue_decline_slider)]
    /\ UNCHANGED <<df, category_filter, sector_filter, company_selector,
                   metrics_selector, filtered_df_panel, company_data,
                   company_details_pane, performance_trends_pane,
                   metric_visualization_pane>>

\* The revenue decline slider is moved: the bound results are recomputed.
SetRevenueDecline(decline) ==
    /\ scenario_analysis_pane.kind = "column"
    /\ scenario_analysis_pane' =
          [scenario_analysis_pane EXCEPT
              !.revenue_decline_slider = decline,
              !.scenario_results =
                  update_scenario(company_data,
                                  scenario_analysis_pane.interest_rate_slider,
                                  decline)]
    /\ UNCHANGED <<df, category_filter, sector_filter, company_selector,
                   metrics_selector, filtered_df_panel, company_data,
                   company_details_pane, performance_trends_pane,
                   metric_visualization_pane>>

NextScenario ==
    \/ \E rate \in interest_rate_values : SetInterestRate(rate)
    \/ \E decline \in revenue_decline_values : SetRevenueDecline(decline)

SpecScenario == InitScenario /\ [][NextScenario]_vars

\* The scenario pane holds results (the record was not empty).
Simulated == scenario_analysis_pane.kind = "column"

\* Both sliders stand at zero.
ZeroShock ==
    /\ scenario_analysis_pane.interest_rate_slider = I(0)
    /\ scenario_analysis_pane.revenue_decline_slider = I(0)

\* The record's ratio columns are the quotients of its financials.
RatiosAsDefined(series) ==
    /\ series["EBITDA"] # I(0)
    /\ series["Interest Expense"] # I(0)
    /\ series["Leverage Ratio"] = QDiv(series["Total Debt"], series["EBITDA"])
    /\ series["Interest Coverage"] =
          QDiv(series["EBITDA"], series["Interest Expense"])

\* C4: with both shocks at zero, a record whose ratio columns are as defined
\* gets back its own Interest Coverage and Leverage Ratio.
C4_ZeroShockIdentity ==
    (Simulated /\ ZeroShock /\ RatiosAsDefined(company_data)) =>
        /\ scenario_analysis_pane.scenario_results.new_coverage =
              company_data["Interest Coverage"]
        /\ scenario_analysis_pane.scenario_results.new_leverage =
              company_data["Leverage Ratio"]

\* C6: the result has a warning flag beside the two values, true exactly
\* when the record's EBITDA < 0 and the new interest coverage < 0.
C6_WarningFlag ==
    Simulated =>
        LET result == scenario_analysis_pane.scenario_results
        IN  /\ {"new_coverage", "new_leverage", "warning_flag"}
                  \subseteq DOMAIN result
            /\ result["warning_flag"] =
                  (/\ QLt(company_data["EBITDA"], I(0))
                   /\ QLt(result["new_coverage"], I(0)))

\* The shocked interest expense and EBITDA, as the claim states them.
ShockedInterestExpense ==
    QMul(company_data["Interest Expense"],
         QAdd(I(1), QDiv(scenario_analysis_pane.interest_rate_slider, I(100))))

ShockedEBITDA ==
    QMul(company_data["EBITDA"],
         QSub(I(1), QDiv(scenario_analysis_pane.revenue_decline_slider, I(100))))

---------------------------------------------------------------------------
(* Metric comparison: normalization.                                       *)

\* A cell that holds text instead of a number.
Text == [s |-> "TBD"]

\* float(cell) succeeds.
IsNumber(cell) == "s" \notin DOMAIN cell

\* filtered_df[metric].astype(float) succeeds: every cell of the column
\* converts.
ColumnConverts(filtered_df, metric) ==
    \A i \in 1..Len(filtered_df) : IsNumber(filtered_df[i][metric])

\* all_values.min() and all_values.max()
ColumnMin(filtered_df, metric) ==
    LET all_values == {filtered_df[i][metric] : i \in 1..Len(filtered_df)}
    IN  CHOOSE v \in all_values : \A w \in all_values : QLe(v, w)

ColumnMax(filtered_df, metric) ==
    LET all_values == {filtered_df[i][metric] : i \in 1..Len(filtered_df)}
    IN  CHOOSE v \in all_values : \A w \in all_values : QGe(v, w)

\* A plausible slip: the closing clamp is left out.
clamp_unit_missing(normalized_value) == normalized_value

\* The closing max(0, min(normalized_value, 1)).
clamp_unit(normalized_value) == QMax(I(0), QMin(normalized_value, I(1)))

\* Min-max scaling against the active subset.
min_max(filtered_df, metric, value) ==
    LET min_val   == ColumnMin(filtered_df, metric)
        max_val   == ColumnMax(filtered_df, metric)
        range_val == QSub(max_val, min_val)
    IN  IF QGt(range_val, I(0))
        THEN QDiv(QSub(value, min_val), range_val)
        ELSE Q(1, 2)

\* The per-metric branch, before the closing clamp.  The Revenue, EBITDA and
\* generic branches are only reached when the column converts.
branch_value(filtered_df, metric, value) ==
    CASE metric = "EBITDA Margin" ->
            IF QLt(value, I(0)) THEN QDiv(QAdd(value, I(1)), I(2)) ELSE value
      [] metric = "Interest Coverage" ->
            QDiv(QMin(QMax(value, I(0)), I(20)), I(20))
      [] metric = "Leverage Ratio" ->
            QSub(I(1), QDiv(QMin(QMax(value, I(0)), I(10)), I(10)))
      [] metric \in {"Revenue", "EBITDA"} ->
            LET min_val == ColumnMin(filtered_df, metric)
            IN  IF metric = "EBITDA" /\ QLt(value, I(0))
                THEN LET norm_val == IF QLt(min_val, I(0))
                                     THEN QDiv(value, min_val)
                                     ELSE I(0)
                     IN  QMul(Q(1, 2), QAdd(I(1), norm_val))
                ELSE min_max(filtered_df, metric, value)
      [] OTHER -> min_max(filtered_df, metric, value)

\* The try block for one row and one metric: the rows it appends (one, or
\* none when float() or astype(float) raises ValueError, which is swallowed).
try_metric(filtered_df, company_row, metric) ==
    IF ~IsNumber(company_row[metric])
    THEN <<>>
    ELSE IF /\ metric \notin {"EBITDA Margin", "Interest Coverage", "Leverage Ratio"}
            /\ ~ColumnConverts(filtered_df, metric)
    THEN <<>>
    ELSE <<[Company          |-> company_row["Company"],
            Metric           |-> metric,
            Original_Value   |-> company_row[metric],
            Normalized_Value |->
                clamp_unit(branch_value(filtered_df, metric, company_row[metric]))]>>

\* The inner loop: the rows of one position, over the metrics from index j.
RECURSIVE metric_loop(_, _, _, _)
metric_loop(filtered_df, company_row, selected_metrics, j) ==
    IF j > Len(selected_metrics)
    THEN <<>>
    ELSE try_metric(filtered_df, company_row, selected_metrics[j])
         \o metric_loop(filtered_df, company_row, selected_metrics, j + 1)

\* The outer loop: the rows of the charted positions from index i.
RECURSIVE row_loop(_, _, _, _)
row_loop(filtered_df, chart_data, selected_metrics, i) ==
    IF i > Len(chart_data)
    THEN <<>>
    ELSE metric_loop(filtered_df, chart_data[i], selected_metrics, 1)
         \o row_loop(filtered_df, chart_data, selected_metrics, i + 1)

\* chart_data: the selected company's rows when one is selected.
ChartData(filtered_df, company) ==
    IF company # None /\ company # ""
    THEN SelectSeq(filtered_df, LAMBDA r : r["Company"] = company)
    ELSE filtered_df

\* create_metric_visualization(filtered_df, selected_metrics, company).  A
\* metric that is no column makes company_row[metric] raise KeyError, which
\* the except clause does not catch.
create_metric_visualization(filtered_df, selected_metrics, company) ==
    IF filtered_df = <<>> \/ selected_metrics = <<>>
    THEN Markdown("No data available for visualization.")
    ELSE LET chart_data == ChartData(filtered_df, company)
         IN  IF chart_data = <<>>
             THEN Markdown("No data available for the selected filters.")
             ELSE IF \E j \in 1..Len(selected_metrics) :
                        selected_metrics[j] \notin DOMAIN chart_data[1]
             THEN [kind |-> "raised", exception |-> "KeyError"]
             ELSE LET normalized_data ==
                          row_loop(filtered_df, chart_data, selected_metrics, 1)
                  IN  IF normalized_data = <<>>
                      THEN Markdown("No valid data available for visualization.")
                      ELSE [kind |-> "column", rows |-> normalized_data]

\* Raw cells drawn for the normalizer: below -1, between -1 and 0, zero,
\* inside (0,1), above 1, above both caps (10 and 20), and text.
NormCells == {I(-2), I(-1), Q(-1, 2), I(0), Q(1, 2), I(2), I(21), Text}

NormCompanies == <<"TWLO", "PD", "BOX", "TDOC", "AMWL", "HIMS", "MAN", "RHI", "ASGN">>

\* A row for the normalizer.  Each metric branch reads only its own column,
\* so one drawn cell fills every metric column of the row.
NormRow(i, cell) == Row(NormCompanies[i], "Green", cell, cell, cell, cell, cell, cell, cell)

\* The active subsets handed to the normalizer.
NormSubsets ==
    UNION {{[i \in 1..k |-> NormRow(i, cells[i])] : cells \in [1..k -> NormCells]} :
              k \in 1..MaxRows}

\* The metric lists handed to the normalizer: each metric of the selector
\* alone, a column outside the selector's options (the generic branch), and
\* the selector's default pair.
NormMetricLists ==
    {<<m>> : m \in {"Revenue", "EBITDA", "Leverage Ratio", "Interest Coverage",
                    "EBITDA Margin", "Total Debt"}}
    \cup {<<"Leverage Ratio", "Interest Coverage">>}

InitNorm ==
    /\ df = <<>>
    /\ category_filter = "All"
    /\ sector_filter = {"All"}
    /\ company_selector \in {None, NormCompanies[1], NormCompanies[9]}
    /\ metrics_selector \in NormMetricLists
    /\ filtered_df_panel \in NormSubsets
    /\ company_data = EmptySeries
    /\ company_details_pane = Unbound
    /\ scenario_analysis_pane = Unbound
    /\ performance_trends_pane = Unbound
    /\ metric_visualization_pane = Unbound

\* The visualization component is evaluated on the subset, the metric list
\* and the selected company.
RenderVisualization ==
    /\ metric_visualization_pane' =
          create_metric_visualization(filtered_df_panel, metrics_selector,
                                      company_selector)
    /\ UNCHANGED <<df, category_filter, sector_filter, company_selector,
                   metrics_selector, filtered_df_panel, company_data,
                   company_details_pane, scenario_analysis_pane,
                   performance_trends_pane>>

NextNorm == RenderVisualization

SpecNorm == InitNorm /\ [][NextNorm]_vars

\* The rows the visualization pane charts.
ChartedRows ==
    IF metric_visualization_pane.kind = "column"
    THEN metric_visualization_pane.rows
    ELSE <<>>

\* C2: every Normalized_Value that was appended lies in [0,1], whichever
\* branch computed it.
C2_NormalizedInUnitRange ==
    \A k \in 1..Len(ChartedRows) :
        /\ QLe(I(0), ChartedRows[k].Normalized_Value)
        /\ QLe(ChartedRows[k].Normalized_Value, I(1))

\* An EBITDA Margin chart where the branch left one value above 1 and
\* another below 0, and the rows hold 1 and 0.
C2_Witness ==
    /\ metrics_selector = <<"EBITDA Margin">>
    /\ \E k \in 1..Len(ChartedRows) :
          /\ ChartedRows[k].Original_Value = I(2)
          /\ ChartedRows[k].Normalized_Value = I(1)
    /\ \E k \in 1..Len(ChartedRows) :
          /\ ChartedRows[k].Original_Value = I(-2)
          /\ ChartedRows[k].Normalized_Value = I(0)

\* C5: for the metric EBITDA a negative raw value scores in [0, 1/2] and a
\* non-negative one in [1/2, 1].
C5_NegativeEBITDABelowHalf ==
    \A k \in 1..Len(ChartedRows) :
        ChartedRows[k].Metric = "EBITDA" =>
            IF QLt(ChartedRows[k].Original_Value, I(0))
            THEN /\ QLe(I(0), ChartedRows[k].Normalized_Value)
                 /\ QLe(ChartedRows[k].Normalized_Value, Q(1, 2))
            ELSE /\ QLe(Q(1, 2), ChartedRows[k].Normalized_Value)
                 /\ QLe(ChartedRows[k].Normalized_Value, I(1))

\* The visualization was evaluated and got as far as its loops.
Charted ==
    /\ metric_visualization_pane # Unbound
    /\ filtered_df_panel # <<>>
    /\ metrics_selector # <<>>
    /\ ChartData(filtered_df_panel, company_selector) # <<>>

\* C8: a row is produced for a charted position and a requested metric if
\* and only if that position's own value for the metric is a number, and no
\* exception escapes.
C8_RowIffOwnValueNumeric ==
    Charted =>
        /\ metric_visualization_pane.kind # "raised"
        /\ LET chart_data == ChartData(filtered_df_panel, company_selector)
           IN  \A i \in 1..Len(chart_data) : \A j \in 1..Len(metrics_selector) :
                   (\E k \in 1..Len(ChartedRows) :
                        /\ ChartedRows[k].Company = chart_data[i]["Company"]
                        /\ ChartedRows[k].Metric = metrics_selector[j])
                   <=> IsNumber(chart_data[i][metrics_selector[j]])

---------------------------------------------------------------------------
(* The dashboard: filters, company selection and the bound components.     *)

qualitative_notes ==
    [c \in DOMAIN sector_map |->
        CASE c = "TWLO" -> "Facing competition from new entrants."
          [] c = "PD"   -> "Negative EBITDA due to R&D investments."
          [] c = "BOX"  -> "Stable but high leverage from acquisition."
          [] c = "TDOC" -> "Regulatory uncertainty in telehealth."
          [] c = "AMWL" -> "Cash burn from expansion efforts."
          [] c = "HIMS" -> "Strong growth but unproven scalability."
          [] c = "MAN"  -> "Cyclical risks in staffing market."
          [] c = "RHI"  -> "Resilient despite economic slowdown."
          [] c = "ASGN" -> "Consistent performance with low debt."]

\* create_company_details(company_data); the pane keeps what the markup is
\* built from.
create_company_details(series) ==
    IF SeriesLen(series) = 0
    THEN Markdown("No company selected or no companies match the filters.")
    ELSE [kind           |-> "column",
          Company        |-> Get(series, "Company", ""),
          category_color |-> Get(colors, Get(series, "Category", ""), "#FFFFFF"),
          notes          |-> Get(qualitative_notes, Get(series, "Company", ""),
                                 "No notes available.")]

\* Rows of the analyzed portfolio that stores are drawn from: four of the nine
\* companies over two sectors, one of them (PD) with negative EBITDA, each
\* in either of two categories.  No row is Yellow or Amber and none is in
\* Services, so criteria that match nothing exist.
PortfolioRows ==
    {AnalyzedRow("TWLO", cat, I(1000), I(200), I(600), I(50)) : cat \in {"Green", "Red"}}
    \cup {AnalyzedRow("PD", cat, I(400), I(-100), I(300), I(20)) : cat \in {"Green", "Red"}}
    \cup {AnalyzedRow("TDOC", cat, I(800), I(80), I(800), I(100)) : cat \in {"Green", "Red"}}
    \cup {AnalyzedRow("AMWL", cat, I(2000), I(100), I(100), I(10)) : cat \in {"Green", "Red"}}

\* The position stores of up to max rows, Company unique.
Stores(max) ==
    UNION {{s \in [1..k -> PortfolioRows] :
               \A i \in 1..k : \A j \in 1..k :
                   s[i]["Company"] = s[j]["Company"] => i = j} :
           k \in 1..max}

Range(seq) == {seq[i] : i \in 1..Len(seq)}

\* Options of the two filter widgets, taken from the data.
category_options == {"All"} \cup {df[i]["Category"] : i \in 1..Len(df)}
sector_options   == {"All"} \cup {df[i]["Sector"] : i \in 1..Len(df)}

\* The metric lists the metrics selector is set to: none and the default pair.
metric_choices == {<<>>, <<"Leverage Ratio", "Interest Coverage">>}

\* The value the company selector falls back to when its options change
\* under it: the first option, or None when there is none.
FirstOption(options) == IF options = <<>> THEN None ELSE options[1]

\* Everything bound downstream of the widgets, recomputed for the widget
\* values (category, sectors, company, metrics).
Rebind(category, sectors, company, metrics) ==
    LET filtered == filter_data(df, category, sectors)
        series   == get_company_data(filtered, company)
    IN  /\ category_filter' = category
        /\ sector_filter' = sectors
        /\ company_selector' = company
        /\ metrics_selector' = metrics
        /\ filtered_df_panel' = filtered
        /\ company_data' = series
        /\ company_details_pane' = create_company_details(series)
        /\ scenario_analysis_pane' = create_scenario_analysis(series)
        /\ performance_trends_pane' = create_performance_trends(series)
        /\ metric_visualization_pane' =
              create_metric_visualization(filtered, metrics, company)
        /\ UNCHANGED df

\* After construction: both filters on "All", the default metric pair, and
\* the company selector on its first option or still on None.
Init ==
    /\ df \in Stores(MaxDashboard)
    /\ category_filter = "All"
    /\ sector_filter = {"All"}
    /\ metrics_selector = <<"Leverage Ratio", "Interest Coverage">>
    /\ filtered_df_panel = filter_data(df, "All", {"All"})
    /\ company_selector \in {None, FirstOption(get_company_options(filtered_df_panel))}
    /\ company_data = get_company_data(filtered_df_panel, company_selector)
    /\ company_details_pane = create_company_details(company_data)
    /\ scenario_analysis_pane = create_scenario_analysis(company_data)
    /\ performance_trends_pane = create_performance_trends(company_data)
    /\ metric_visualization_pane =
          create_metric_visualization(filtered_df_panel, metrics_selector,
                                      company_selector)

\* What the company selector holds once its options were replaced: the
\* widget library decides whether a value that is no longer an option is
\* kept, dropped or replaced by the first option.
SelectorAfter(category, sectors) ==
    {company_selector, None,
     FirstOption(get_company_options(filter_data(df, category, sectors)))}

\* The category filter is changed.
SetCategory(category) ==
    /\ category # category_filter
    /\ \E company \in SelectorAfter(category, sector_filter) :
          Rebind(category, sector_filter, company, metrics_selector)

\* The sector filter is changed.
SetSectors(sectors) ==
    /\ sectors # sector_filter
    /\ \E company \in SelectorAfter(category_filter, sectors) :
          Rebind(category_filter, sectors, company, metrics_selector)

\* A company is picked among the selector's options.
SelectCompany(company) ==
    /\ company # company_selector
    /\ Rebind(category_filter, sector_filter, company, metrics_selector)

\* The metrics to compare are changed.
SetMetrics(metrics) ==
    /\ metrics # metrics_selector
    /\ Rebind(category_filter, sector_filter, company_selector, metrics)

Next ==
    \/ \E category \in category_options : SetCategory(category)
    \/ \E sectors \in SUBSET sector_options : SetSectors(sectors)
    \/ \E company \in Range(get_company_options(filtered_df_panel)) :
          SelectCompany(company)
    \/ \E metrics \in metric_choices : SetMetrics(metrics)

Spec == Init /\ [][Next]_vars

\* The position passes the criteria (category, sectors).
Passes(position, category, sectors) ==
    /\ category = "All" \/ position["Category"] = category
    /\ sectors = {} \/ "All" \in sectors \/ position["Sector"] \in sectors

\* The positions of the store that pass the current filter values.
ActiveSubset ==
    {df[i] : i \in {j \in 1..Len(df) : Passes(df[j], category_filter, sector_filter)}}

IsPlaceholder(pane) == pane.kind = "markdown"

\* C10: whatever filters and selections came before, the record handed to
\* the details, scenario and trends components is empty exactly when the
\* active subset is empty, no company is selected or the selected company is
\* not in the active subset, and then each component shows its placeholder;
\* otherwise it is the position of the active subset with the selected
\* Company code, and that is the position the components analyse.
C10_OnlyActivePositionAnalysed ==
    /\ SeriesLen(company_data) = 0 <=>
          \/ ActiveSubset = {}
          \/ company_selector = None
          \/ \A p \in ActiveSubset : p["Company"] # company_selector
    /\ SeriesLen(company_data) = 0 =>
          /\ IsPlaceholder(company_details_pane)
          /\ IsPlaceholder(scenario_analysis_pane)
          /\ IsPlaceholder(performance_trends_pane)
    /\ SeriesLen(company_data) # 0 =>
          /\ company_data \in ActiveSubset
          /\ company_data["Company"] = company_selector
          /\ company_details_pane.kind = "column"
          /\ company_details_pane.Company = company_selector
          /\ scenario_analysis_pane.kind = "column"
          /\ scenario_analysis_pane.Company = company_selector
          /\ performance_trends_pane.kind = "column"
          /\ performance_trends_pane.Company = company_selector

\* A filter change left the selector on a company of the store that the
\* filter now excludes, while other positions are active: the record is
\* empty and the three components show their placeholders.
C10_Witness ==
    /\ ActiveSubset # {}
    /\ company_selector \in {df[i]["Company"] : i \in 1..Len(df)}
    /\ \A p \in ActiveSubset : p["Company"] # company_selector
    /\ SeriesLen(company_data) = 0
    /\ IsPlaceholder(company_details_pane)
    /\ IsPlaceholder(scenario_analysis_pane)
    /\ IsPlaceholder(performance_trends_pane)

---------------------------------------------------------------------------
(* filter_data on its own, over every pair of criteria.                    *)

InitFilter ==
    /\ df \in Stores(MaxPositions)
    /\ category_filter = "All"
    /\ sector_filter = {"All"}
    /\ company_selector = None
    /\ metrics_selector = <<>>
    /\ filtered_df_panel = filter_data(df, "All", {"All"})
    /\ company_data = EmptySeries
    /\ company_details_pane = Unbound
    /\ scenario_analysis_pane = Unbound
    /\ performance_trends_pane = Unbound
    /\ metric_visualization_pane = Unbound

\* filter_data is called with a category criterion and a sector criteria set.
Filter(category, sectors) ==
    /\ category_filter' = category
    /\ sector_filter' = sectors
    /\ filtered_df_panel' = filter_data(df, category, sectors)
    /\ UNCHANGED <<df, company_selector, metrics_selector, company_data,
                   company_details_pane, scenario_analysis_pane,
                   performance_trends_pane, metric_visualization_pane>>

NextFilter ==
    \E category \in Categories \cup {"All"} :
        \E sectors \in SUBSET (Sectors \cup {"All"}) : Filter(category, sectors)

SpecFilter == InitFilter /\ [][NextFilter]_vars

\* The index in the store of a row of the result (Company is unique).
StoreIndex(row) == CHOOSE i \in 1..Len(df) : df[i] = row

\* C3: the result holds exactly the positions of the store that pass both
\* criteria (category "All" or equal; sectors empty, holding "All" or holding
\* the Sector), each once, in the store's order; with "All" and {"All"} it is
\* the whole store, and criteria nothing passes give the empty subset.
C3_FilterExactAndOrdered ==
    LET result == filtered_df_panel
        kept   == {i \in 1..Len(df) : Passes(df[i], category_filter, sector_filter)}
    IN  /\ \A k \in 1..Len(result) : \E i \in kept : df[i] = result[k]
        /\ \A i \in kept : \E k \in 1..Len(result) : result[k] = df[i]
        /\ Len(result) = Cardinality(kept)
        /\ \A k \in 1..Len(result) : \A l \in 1..Len(result) :
              k < l => StoreIndex(result[k]) < StoreIndex(result[l])
        /\ (category_filter = "All" /\ sector_filter = {"All"}) => result = df
        /\ kept = {} => result = <<>>

\* Both restrictions at work on a store of three: a category and a sector
\* set without "All" that keep the first and the last position and drop the
\* middle one.
C3_Witness ==
    /\ Len(df) = 3
    /\ category_filter # "All"
    /\ sector_filter # {}
    /\ "All" \notin sector_filter
    /\ filtered_df_panel = <<df[1], df[3]>>

====
